---- MODULE Spec2Model ----
(***************************************************************************)
(* A model of the ETL cleaning pipeline: assess_raw_data and               *)
(* clean_csv_data of etl_pipeline_logic.py, one action per step, and       *)
(* run_verification of run_pipeline_verification.py (assess, clean each    *)
(* file, merge with combine_first, export).                                *)
(*                                                                         *)
(* Text is a sequence of one-character strings, so that substring tests,   *)
(* digit extraction and name normalisation are computed character by       *)
(* character.  A missing value (NaN, NaT, None in a column) is the empty   *)
(* sequence: read_csv turns the empty field into NaN, so no cell of a      *)
(* DataFrame is the empty string.  A number is its canonical numeral.      *)
(***************************************************************************)
EXTENDS Integers, Sequences, FiniteSets, TLC

VARIABLES
    files,             \* csv_files on disk: one record per name of the list
    file_contents,     \* run_verification: the contents of the files found
    pc,                \* position in run_verification / clean_csv_data
    k,                 \* index of the file the cleaning loop is at
    df,                \* clean_csv_data: the DataFrame being cleaned
    ret,               \* clean_csv_data: the values returned (<<>> is None)
    cleaned_dfs,       \* run_verification: the tables admitted to the merge
    indexed_dfs,       \* run_verification: the tables indexed by job_id
    final_merged,      \* run_verification: the accumulator of the merge
    mi,                \* run_verification: loop index i of the merge
    merge_ran,         \* whether the merge branch (line 57) was entered
    final_cleaned_df,  \* run_verification: <<>> is None, else <<table>>
    exported,          \* cleaned_rooflink_data.csv: <<>> when not written
    raised,            \* the exception that left the run, "" when none
    file_content,      \* assess_raw_data: the bytes of the file
    decoded_content,   \* assess_raw_data: the text decoded, "" at first
    assessment,        \* assess_raw_data: the dictionary it returns
    enc                \* assess_raw_data: position in the fallback list

vars == <<files, file_contents, pc, k, df, ret, cleaned_dfs, indexed_dfs,
          final_merged, mi, merge_ran, final_cleaned_df, exported, raised,
          file_content, decoded_content, assessment, enc>>

assess_vars == <<file_content, decoded_content, assessment, enc>>

(***************************************************************************)
(* Bounds of the model.                                                    *)
(***************************************************************************)
MaxRows == 2
MaxTallRows == 10

\* the most data rows of a source that also holds a summary row
MaxMarkedRows == 3

(***************************************************************************)
(* Characters and strings.                                                 *)
(***************************************************************************)
Ascii ==
    <<" ", "-", ".", "/",
      "0", "1", "2", "3", "4", "5", "6", "7", "8", "9", ":",
      "A", "B", "C", "D", "E", "F", "G", "H", "I", "J", "K", "L", "M",
      "N", "O", "P", "Q", "R", "S", "T", "U", "V", "W", "X", "Y", "Z",
      "_",
      "a", "b", "c", "d", "e", "f", "g", "h", "i", "j", "k", "l", "m",
      "n", "o", "p", "q", "r", "s", "t", "u", "v", "w", "x", "y", "z">>

Chars == {Ascii[i] : i \in 1..Len(Ascii)}

\* the place of each character in code point order
OrdOf == [c \in Chars |-> CHOOSE i \in 1..Len(Ascii) : Ascii[i] = c]

Ord(c) == OrdOf[c]

Digits == {"0", "1", "2", "3", "4", "5", "6", "7", "8", "9"}

DigitChars == <<"0", "1", "2", "3", "4", "5", "6", "7", "8", "9">>

IsDigit(c) == c \in Digits

DigitVal(c) == OrdOf[c] - OrdOf["0"]

UpperChars == {c \in Chars : OrdOf["A"] <= OrdOf[c] /\ OrdOf[c] <= OrdOf["Z"]}

LowerChars == {c \in Chars : OrdOf["a"] <= OrdOf[c] /\ OrdOf[c] <= OrdOf["z"]}

IsUpper(c) == c \in UpperChars

IsLower(c) == c \in LowerChars

LowerOf ==
    [c \in Chars |->
        IF c \in UpperChars THEN Ascii[OrdOf[c] - OrdOf["A"] + OrdOf["a"]]
        ELSE c]

\* str.lower on one character
LowerChar(c) == LowerOf[c]

\* str.lower
Lower(s) == [i \in 1..Len(s) |-> LowerChar(s[i])]

\* Python's `sub in s`
Contains(s, sub) ==
    \E i \in 1..(Len(s) - Len(sub) + 1) : SubSeq(s, i, i + Len(sub) - 1) = sub

\* Python's string order (by code point), strict
RECURSIVE StrLess(_, _)
StrLess(a, b) ==
    IF b = <<>> THEN FALSE
    ELSE IF a = <<>> THEN TRUE
    ELSE IF a[1] = b[1] THEN StrLess(Tail(a), Tail(b))
    ELSE Ord(a[1]) < Ord(b[1])

\* int(s) of a run of decimal digits
RECURSIVE ParseNat(_)
ParseNat(s) ==
    IF s = <<>> THEN 0
    ELSE 10 * ParseNat(SubSeq(s, 1, Len(s) - 1)) + DigitVal(s[Len(s)])

\* str(n) of a natural number
RECURSIVE Numeral(_)
Numeral(n) ==
    IF n < 10 THEN <<DigitChars[n + 1]>>
    ELSE Numeral(n \div 10) \o <<DigitChars[(n % 10) + 1]>>

\* Whether a field parses as a number.  The fields of the model spell numbers
\* with digits only (no sign, point or exponent).
IsNumericStr(s) == s /= <<>> /\ \A i \in 1..Len(s) : IsDigit(s[i])

\* The elements of s at the positions in keep, in order
RECURSIVE SelectIdx(_, _, _)
SelectIdx(s, keep, i) ==
    IF i > Len(s) THEN <<>>
    ELSE (IF i \in keep THEN <<s[i]>> ELSE <<>>) \o SelectIdx(s, keep, i + 1)

Range(s) == {s[i] : i \in 1..Len(s)}

(***************************************************************************)
(* DataFrames: column names, column dtypes and rows, all by position.      *)
(***************************************************************************)
NaN == <<>>

isna(c) == c = NaN

None == <<>>

NoTable == [cols |-> <<>>, dtypes |-> <<>>, rows |-> <<>>]

ColIdx(t, name) == {j \in 1..Len(t.cols) : t.cols[j] = name}

Column(t, j) == [r \in 1..Len(t.rows) |-> t.rows[r][j]]

HasDuplicateName(t, name) == Cardinality(ColIdx(t, name)) > 1

\* df.drop(columns=...) by position
DropColumns(t, J) ==
    LET keep == (1..Len(t.cols)) \ J
    IN  [cols   |-> SelectIdx(t.cols, keep, 1),
         dtypes |-> SelectIdx(t.dtypes, keep, 1),
         rows   |-> [r \in 1..Len(t.rows) |-> SelectIdx(t.rows[r], keep, 1)]]

\* keep the rows at the positions in keep
KeepRows(t, keep) == [t EXCEPT !.rows = SelectIdx(t.rows, keep, 1)]

JOB_ID == <<"j", "o", "b", "_", "i", "d">>

(***************************************************************************)
(* clean_csv_data, step 1: pd.read_csv.                                    *)
(***************************************************************************)
\* na_values of the read_csv call: '', 'NULL', 'null', 'N/A', 'n/a'
na_values == {<<>>, <<"N", "U", "L", "L">>, <<"n", "u", "l", "l">>, <<"N", "/", "A">>, <<"n", "/", "a">>}

\* read_csv's dtype of a column: a number column when every field that is not
\* missing parses as a number (a column with no value at all is float64)
InferDtype(cells) ==
    IF /\ Len(cells) > 0
       /\ \A i \in 1..Len(cells) : isna(cells[i]) \/ IsNumericStr(cells[i])
    THEN "number" ELSE "object"

read_csv(src) ==
    LET raw == [r \in 1..Len(src.lines) |->
                   [j \in 1..Len(src.header) |->
                       IF src.lines[r][j] \in na_values THEN NaN
                       ELSE src.lines[r][j]]]
        dt  == [j \in 1..Len(src.header) |->
                   InferDtype([r \in 1..Len(raw) |-> raw[r][j]])]
    IN  [cols   |-> src.header,
         dtypes |-> dt,
         rows   |-> [r \in 1..Len(raw) |->
                       [j \in 1..Len(src.header) |->
                           IF dt[j] = "number" /\ ~isna(raw[r][j])
                           THEN Numeral(ParseNat(raw[r][j]))
                           ELSE raw[r][j]]]]

(***************************************************************************)
(* Step 2: remove summary rows.                                            *)
(***************************************************************************)
header_keywords == <<<<"t", "o", "t", "a", "l">>, <<"s", "u", "m", "m", "a", "r", "y">>, <<"a", "v", "e", "r", "a", "g", "e">>, <<"c", "o", "u", "n", "t">>>>

HeaderKeywordThreshold == 2

\* ' '.join(parts)
RECURSIVE JoinSpace(_)
JoinSpace(parts) ==
    IF parts = <<>> THEN <<>>
    ELSE IF Len(parts) = 1 THEN parts[1]
    ELSE parts[1] \o <<" ">> \o JoinSpace(Tail(parts))

\* ' '.join([str(val).lower() for val in row if pd.notna(val)])
row_str(row) ==
    LET present == SelectSeq(row, LAMBDA c : ~isna(c))
    IN  JoinSpace([i \in 1..Len(present) |-> Lower(present[i])])

\* a variant that takes one keyword for enough
is_likely_header_row_one(row) ==
    Cardinality({i \in 1..Len(header_keywords) :
                    Contains(row_str(row), header_keywords[i])}) >= 1

is_likely_header_row(row) ==
    Cardinality({i \in 1..Len(header_keywords) :
                    Contains(row_str(row), header_keywords[i])})
        >= HeaderKeywordThreshold

RemoveSummaryRows(t) ==
    KeepRows(t, {r \in 1..Len(t.rows) : ~is_likely_header_row(t.rows[r])})

(***************************************************************************)
(* Step 3: standardize column names.                                       *)
(***************************************************************************)
\* a character the pattern [^a-z0-9_] does not match
NameChars == LowerChars \cup Digits \cup {"_"}

IsNameChar(c) == c \in NameChars

RECURSIVE LStrip(_, _)
LStrip(s, c) == IF s /= <<>> /\ s[1] = c THEN LStrip(Tail(s), c) ELSE s

RECURSIVE RStrip(_, _)
RStrip(s, c) ==
    IF s /= <<>> /\ s[Len(s)] = c THEN RStrip(SubSeq(s, 1, Len(s) - 1), c)
    ELSE s

Strip(s, c) == RStrip(LStrip(s, c), c)

RECURSIVE SkipRun(_)
SkipRun(s) == IF s /= <<>> /\ ~IsNameChar(s[1]) THEN SkipRun(Tail(s)) ELSE s

\* re.sub(r'[^a-z0-9_]+', '_', name)
RECURSIVE SubRuns(_)
SubRuns(s) ==
    IF s = <<>> THEN <<>>
    ELSE IF IsNameChar(s[1]) THEN <<s[1]>> \o SubRuns(Tail(s))
    ELSE <<"_">> \o SubRuns(SkipRun(s))

clean_column_name(col) == Strip(SubRuns(Lower(Strip(col, " "))), "_")

StandardizeColumns(t) ==
    [t EXCEPT !.cols = [j \in 1..Len(t.cols) |-> clean_column_name(t.cols[j])]]

(***************************************************************************)
(* Step 4: extract job_id.                                                 *)
(***************************************************************************)
url_keywords == <<<<"u", "r", "l">>, <<"l", "i", "n", "k">>, <<"h", "r", "e", "f">>>>

UNNAMED == <<"u", "n", "n", "a", "m", "e", "d">>

IsUrlName(name) ==
    \E i \in 1..Len(url_keywords) : Contains(name, url_keywords[i])

\* the name of the first column that contains a keyword, None when none does
find_url_column(t) ==
    IF \E j \in 1..Len(t.cols) : IsUrlName(t.cols[j])
    THEN t.cols[CHOOSE j \in 1..Len(t.cols) :
                   /\ IsUrlName(t.cols[j])
                   /\ \A h \in 1..(j - 1) : ~IsUrlName(t.cols[h])]
    ELSE None

\* Series.str.extract(r'(\d+)', expand=False) on one cell: the leftmost match,
\* taken greedily
RECURSIVE DigitRun(_)
DigitRun(s) ==
    IF s /= <<>> /\ IsDigit(s[1]) THEN <<s[1]>> \o DigitRun(Tail(s)) ELSE <<>>

RECURSIVE str_extract(_)
str_extract(s) ==
    IF s = <<>> THEN NaN
    ELSE IF IsDigit(s[1]) THEN DigitRun(s)
    ELSE str_extract(Tail(s))

\* pd.to_numeric(..., errors='coerce') on one extracted cell
to_numeric_coerce(s) ==
    IF IsNumericStr(s) THEN Numeral(ParseNat(s)) ELSE NaN

\* df[name] = values: every column of that name is set; a new one is appended
SetColumn(t, name, values, dtype) ==
    IF ColIdx(t, name) = {}
    THEN [cols   |-> Append(t.cols, name),
          dtypes |-> Append(t.dtypes, dtype),
          rows   |-> [r \in 1..Len(t.rows) |-> Append(t.rows[r], values[r])]]
    ELSE [cols   |-> t.cols,
          dtypes |-> [j \in 1..Len(t.cols) |->
                         IF t.cols[j] = name THEN dtype ELSE t.dtypes[j]],
          rows   |-> [r \in 1..Len(t.rows) |->
                         [j \in 1..Len(t.cols) |->
                             IF t.cols[j] = name THEN values[r]
                             ELSE t.rows[r][j]]]]

\* The step's outcome: err names the exception that leaves clean_csv_data
ExtractJobId(t) ==
    LET url_col == find_url_column(t)
        nrows   == Len(t.rows)
    IN  IF url_col = None
        THEN [err |-> "",
              df  |-> SetColumn(t, JOB_ID, [r \in 1..nrows |-> NaN], "number")]
        ELSE IF HasDuplicateName(t, url_col)
        THEN [err |-> "AttributeError", df |-> t]   \* DataFrame has no .str
        ELSE LET u == CHOOSE j \in ColIdx(t, url_col) : TRUE
             IN  IF t.dtypes[u] /= "object"
                 THEN [err |-> "AttributeError", df |-> t]  \* .str on numbers
                 ELSE IF HasDuplicateName(t, JOB_ID)
                 THEN [err |-> "TypeError", df |-> t]  \* to_numeric(DataFrame)
                 ELSE LET ids == [r \in 1..nrows |->
                                    to_numeric_coerce(str_extract(t.rows[r][u]))]
                          t2  == SetColumn(t, JOB_ID, ids, "number")
                          cols_to_drop ==
                              {j \in 1..Len(t2.cols) :
                                  \/ t2.cols[j] = url_col
                                  \/ Contains(t2.cols[j], UNNAMED)}
                      IN  [err |-> "", df |-> DropColumns(t2, cols_to_drop)]

(***************************************************************************)
(* Step 5: handle missing values.                                          *)
(***************************************************************************)
CRITICAL_COLUMNS ==
    <<<<"c", "u", "s", "t", "o", "m", "e", "r", "_", "f", "i", "r", "s", "t", "_", "n", "a", "m", "e">>,
      <<"c", "u", "s", "t", "o", "m", "e", "r", "_", "l", "a", "s", "t", "_", "n", "a", "m", "e">>,
      <<"a", "d", "d", "r", "e", "s", "s">>, <<"c", "i", "t", "y">>, <<"s", "t", "a", "t", "e">>>>

DropThresholdPct == 90

UNKNOWN == <<"U", "n", "k", "n", "o", "w", "n">>

HALF == <<".", "5">>

Observed(cells) == SelectSeq(cells, LAMBDA c : ~isna(c))

MissingCount(cells) == Len(cells) - Len(Observed(cells))

\* df[col].isnull().mean() * 100 > 90.  The mean is missing/rows in float64;
\* for every row count below 400 the float comparison agrees with the exact one.
\* a variant that compares with >= instead of >
missing_pct_at_least(cells, pct) ==
    Len(cells) > 0 /\ 100 * MissingCount(cells) >= pct * Len(cells)

missing_pct_above(cells, pct) ==
    Len(cells) > 0 /\ 100 * MissingCount(cells) > pct * Len(cells)

\* a sequence of naturals in ascending order
RECURSIVE InsertNat(_, _)
InsertNat(sorted, n) ==
    IF sorted = <<>> THEN <<n>>
    ELSE IF n <= sorted[1] THEN <<n>> \o sorted
    ELSE <<sorted[1]>> \o InsertNat(Tail(sorted), n)

RECURSIVE SortNat(_)
SortNat(ns) ==
    IF ns = <<>> THEN <<>> ELSE InsertNat(SortNat(Tail(ns)), ns[1])

\* Series.median() of a number column that holds at least one value
median(cells) ==
    LET obs == Observed(cells)
        v   == SortNat([i \in 1..Len(obs) |-> ParseNat(obs[i])])
        m   == Len(v)
    IN  IF m % 2 = 1 THEN Numeral(v[(m + 1) \div 2])
        ELSE LET sum == v[m \div 2] + v[(m \div 2) + 1]
             IN  IF sum % 2 = 0 THEN Numeral(sum \div 2)
                 ELSE Numeral(sum \div 2) \o HALF

CountOf(cells, v) == Cardinality({i \in 1..Len(cells) : cells[i] = v})

\* Series.mode(): the most frequent values, sorted; empty when none is observed
mode_values(cells) ==
    LET obs == Range(Observed(cells))
    IN  {v \in obs : \A w \in obs : CountOf(cells, w) <= CountOf(cells, v)}

\* df[col].mode().iloc[0] if not df[col].mode().empty else 'Unknown'
mode_fill_value(cells) ==
    IF mode_values(cells) = {} THEN UNKNOWN
    ELSE CHOOSE v \in mode_values(cells) :
            \A w \in mode_values(cells) : w = v \/ StrLess(v, w)

is_numeric_dtype(dtype) == dtype = "number"

fill_value(cells, dtype) ==
    IF is_numeric_dtype(dtype) THEN median(cells) ELSE mode_fill_value(cells)

\* Series.fillna(value, inplace=True), taken to write through to the frame
fillna(cells, value) ==
    [i \in 1..Len(cells) |-> IF isna(cells[i]) THEN value ELSE cells[i]]

\* the columns the loop drops
SparseColumns(t) ==
    {j \in 1..Len(t.cols) :
        t.cols[j] /= JOB_ID /\ missing_pct_above(Column(t, j), DropThresholdPct)}

HandleMissing(t) ==
    IF \E j \in 1..Len(t.cols) :
          t.cols[j] /= JOB_ID /\ HasDuplicateName(t, t.cols[j])
    THEN [err |-> "ValueError", df |-> t]    \* truth value of a Series
    ELSE LET filled ==
                 [j \in 1..Len(t.cols) |->
                     IF /\ t.cols[j] /= JOB_ID
                        /\ ~missing_pct_above(Column(t, j), DropThresholdPct)
                        /\ missing_pct_above(Column(t, j), 0)
                     THEN fillna(Column(t, j),
                                 fill_value(Column(t, j), t.dtypes[j]))
                     ELSE Column(t, j)]
             t2 == [t EXCEPT !.rows =
                       [r \in 1..Len(t.rows) |->
                           [j \in 1..Len(t.cols) |-> filled[j][r]]]]
         IN  [err |-> "", df |-> DropColumns(t2, SparseColumns(t))]

(***************************************************************************)
(* Step 6: optimize data types.                                            *)
(***************************************************************************)
date_keywords == <<<<"d", "a", "t", "e">>, <<"t", "i", "m", "e">>>>

IsDateName(name) ==
    \E i \in 1..Len(date_keywords) : Contains(name, date_keywords[i])

\* A field pd.to_datetime parses.  The date columns of the model hold ISO
\* dates (dddd-dd-dd) and words without digits, which it cannot parse.
IsDateStr(s) ==
    /\ Len(s) = 10
    /\ \A i \in {1, 2, 3, 4, 6, 7, 9, 10} : IsDigit(s[i])
    /\ s[5] = "-" /\ s[8] = "-"

\* pd.to_numeric(df[col], errors='raise') succeeds
AllNumeric(cells) ==
    \A i \in 1..Len(cells) : isna(cells[i]) \/ IsNumericStr(cells[i])

OptimizeColumn(name, dtype, cells) ==
    IF dtype /= "object" THEN [dtype |-> dtype, cells |-> cells]
    ELSE IF AllNumeric(cells)
    THEN [dtype |-> "number",
          cells |-> [i \in 1..Len(cells) |->
                        IF isna(cells[i]) THEN NaN
                        ELSE Numeral(ParseNat(cells[i]))]]
    ELSE IF IsDateName(name)
    THEN [dtype |-> "datetime64",
          cells |-> [i \in 1..Len(cells) |->
                        IF IsDateStr(cells[i]) THEN cells[i] ELSE NaN]]
    ELSE [dtype |-> dtype, cells |-> cells]

OptimizeTypes(t) ==
    IF HasDuplicateName(t, JOB_ID)
    THEN [err |-> "AttributeError", df |-> t]   \* DataFrame has no .dtype
    ELSE LET opt == [j \in 1..Len(t.cols) |->
                        OptimizeColumn(t.cols[j], t.dtypes[j], Column(t, j))]
         IN  [err |-> "",
              df  |-> [cols   |-> t.cols,
                       dtypes |-> [j \in 1..Len(t.cols) |-> opt[j].dtype],
                       rows   |-> [r \in 1..Len(t.rows) |->
                                     [j \in 1..Len(t.cols) |->
                                         opt[j].cells[r]]]]]

(***************************************************************************)
(* Step 7: remove duplicate rows.                                          *)
(***************************************************************************)
\* df.drop_duplicates(): the first of equal rows is kept
drop_duplicates(t) ==
    KeepRows(t, {r \in 1..Len(t.rows) :
                    \A q \in 1..(r - 1) : t.rows[q] /= t.rows[r]})

\* df.dropna(subset=[name])
dropna(t, name) ==
    KeepRows(t, {r \in 1..Len(t.rows) :
                    \A j \in ColIdx(t, name) : ~isna(t.rows[r][j])})

\* df.drop_duplicates(subset=name, keep='first')
drop_duplicates_subset(t, name) ==
    KeepRows(t, {r \in 1..Len(t.rows) :
                    \A q \in 1..(r - 1) :
                        \E j \in ColIdx(t, name) : t.rows[q][j] /= t.rows[r][j]})

\* a variant that stops after the full-row duplicates
RemoveDuplicates_RowsOnly(t) == drop_duplicates(t)

RemoveDuplicates(t) ==
    LET t1 == drop_duplicates(t)
    IN  IF ColIdx(t1, JOB_ID) /= {}
        THEN drop_duplicates_subset(dropna(t1, JOB_ID), JOB_ID)
        ELSE t1

(***************************************************************************)
(* run_verification: the merge.                                            *)
(***************************************************************************)
\* the names of csv_files
NumFiles == 3

\* a set of numerals in ascending order of value
RECURSIVE SortedIds(_)
SortedIds(ids) ==
    IF ids = {} THEN <<>>
    ELSE LET m == CHOOSE v \in ids :
                     \A w \in ids : ParseNat(v) <= ParseNat(w)
         IN  <<m>> \o SortedIds(ids \ {m})

\* a set of names in ascending string order
RECURSIVE SortedNames(_)
SortedNames(names) ==
    IF names = {} THEN <<>>
    ELSE LET m == CHOOSE v \in names :
                     \A w \in names : w = v \/ StrLess(v, w)
         IN  <<m>> \o SortedNames(names \ {m})

\* Index.union as align(join='outer') uses it: an equal or empty operand
\* leaves the other as it is, otherwise the union comes out sorted
\* a variant that keeps the accumulator's index
UnionIds_left(a, b) == a

UnionIds(a, b) ==
    IF a = b \/ b = <<>> THEN a
    ELSE IF a = <<>> THEN b
    ELSE SortedIds(Range(a) \cup Range(b))

\* a variant that keeps only the names both have
UnionNames_common(a, b) == SelectSeq(a, LAMBDA name : name \in Range(b))

UnionNames(a, b) ==
    IF a = b \/ b = <<>> THEN a
    ELSE IF a = <<>> THEN b
    ELSE SortedNames(Range(a) \cup Range(b))

\* df.set_index('job_id')
set_index(t) ==
    LET j == CHOOSE c \in ColIdx(t, JOB_ID) : TRUE
        d == DropColumns(t, {j})
    IN  [index  |-> Column(t, j),
         cols   |-> d.cols,
         dtypes |-> d.dtypes,
         rows   |-> d.rows]

\* the cell of an indexed frame after reindexing: NaN where it has no such
\* row or no such column
Lookup(x, id, name) ==
    IF id \in Range(x.index) /\ name \in Range(x.cols)
    THEN x.rows[CHOOSE r \in 1..Len(x.index) : x.index[r] = id]
               [CHOOSE j \in 1..Len(x.cols) : x.cols[j] = name]
    ELSE NaN

\* a variant in which b's value wins unless it is missing
combine_first_overwrite(a, b) ==
    LET new_index   == UnionIds(a.index, b.index)
        new_columns == UnionNames(a.cols, b.cols)
    IN  [index  |-> new_index,
         cols   |-> new_columns,
         dtypes |-> [j \in 1..Len(new_columns) |-> "object"],
         rows   |-> [r \in 1..Len(new_index) |->
                       [j \in 1..Len(new_columns) |->
                           IF ~isna(Lookup(b, new_index[r], new_columns[j]))
                           THEN Lookup(b, new_index[r], new_columns[j])
                           ELSE Lookup(a, new_index[r], new_columns[j])]]]

\* a.combine_first(b): a's value unless it is missing, then b's
combine_first(a, b) ==
    LET new_index   == UnionIds(a.index, b.index)
        new_columns == UnionNames(a.cols, b.cols)
    IN  [index  |-> new_index,
         cols   |-> new_columns,
         dtypes |-> [j \in 1..Len(new_columns) |->
                       IF new_columns[j] \in Range(a.cols)
                       THEN a.dtypes[CHOOSE h \in 1..Len(a.cols) :
                                        a.cols[h] = new_columns[j]]
                       ELSE b.dtypes[CHOOSE h \in 1..Len(b.cols) :
                                        b.cols[h] = new_columns[j]]],
         rows   |-> [r \in 1..Len(new_index) |->
                       [j \in 1..Len(new_columns) |->
                           IF ~isna(Lookup(a, new_index[r], new_columns[j]))
                           THEN Lookup(a, new_index[r], new_columns[j])
                           ELSE Lookup(b, new_index[r], new_columns[j])]]]

\* final_merged.reset_index()
reset_index(x) ==
    [cols   |-> <<JOB_ID>> \o x.cols,
     dtypes |-> <<"number">> \o x.dtypes,
     rows   |-> [r \in 1..Len(x.index) |-> <<x.index[r]>> \o x.rows[r]]]

NoIndexed == [index |-> <<>>, cols |-> <<>>, dtypes |-> <<>>, rows |-> <<>>]

\* line 44: the table is admitted to the merge
Admitted(returned) ==
    /\ returned /= None
    /\ ColIdx(returned[1], JOB_ID) /= {}
    /\ \E r \in 1..Len(returned[1].rows) :
          \E j \in ColIdx(returned[1], JOB_ID) : ~isna(returned[1].rows[r][j])

\* clean_csv_data as a whole (lines 67-240): what it returns, or the
\* exception that leaves it
clean_csv_data(src) ==
    IF ~src.parses THEN [err |-> "", ret |-> None]
    ELSE LET s4 == ExtractJobId(
                       StandardizeColumns(RemoveSummaryRows(read_csv(src))))
             s5 == HandleMissing(s4.df)
             s6 == OptimizeTypes(s5.df)
         IN  IF s4.err /= "" THEN [err |-> s4.err, ret |-> None]
             ELSE IF s5.err /= "" THEN [err |-> s5.err, ret |-> None]
             ELSE IF s6.err /= "" THEN [err |-> s6.err, ret |-> None]
             ELSE [err |-> "", ret |-> <<RemoveDuplicates(s6.df)>>]

(***************************************************************************)
(* Actions of clean_csv_data.                                              *)
(***************************************************************************)
run_vars == <<files, file_contents, k, cleaned_dfs, indexed_dfs, final_merged,
              mi, merge_ran, final_cleaned_df, exported, assess_vars>>

\* lines 97-104
Load ==
    /\ pc = "load"
    /\ IF file_contents[k].parses
       THEN /\ df' = read_csv(file_contents[k])
            /\ ret' = None
            /\ pc' = "summary"
       ELSE /\ df' = NoTable
            /\ ret' = None
            /\ pc' = "returned"
    /\ UNCHANGED <<run_vars, raised>>

\* lines 109-120
RemoveSummary ==
    /\ pc = "summary"
    /\ df' = RemoveSummaryRows(df)
    /\ pc' = "names"
    /\ UNCHANGED <<run_vars, ret, raised>>

\* lines 125-131
Standardize ==
    /\ pc = "names"
    /\ df' = StandardizeColumns(df)
    /\ pc' = "job_id"
    /\ UNCHANGED <<run_vars, ret, raised>>

\* A step that may raise: nothing in clean_csv_data or run_verification
\* catches the exception, so it leaves the run
StepOrRaise(out, next) ==
    IF out.err = ""
    THEN df' = out.df /\ pc' = next /\ raised' = raised
    ELSE df' = df /\ pc' = "raised" /\ raised' = out.err

\* lines 136-166
ExtractId ==
    /\ pc = "job_id"
    /\ StepOrRaise(ExtractJobId(df), "missing")
    /\ UNCHANGED <<run_vars, ret>>

\* lines 170-197
ResolveMissing ==
    /\ pc = "missing"
    /\ StepOrRaise(HandleMissing(df), "types")
    /\ UNCHANGED <<run_vars, ret>>

\* lines 201-215
Optimize ==
    /\ pc = "types"
    /\ StepOrRaise(OptimizeTypes(df), "dups")
    /\ UNCHANGED <<run_vars, ret>>

\* lines 220-240: clean_csv_data returns df, and nothing else
Deduplicate ==
    /\ pc = "dups"
    /\ df' = RemoveDuplicates(df)
    /\ ret' = <<RemoveDuplicates(df)>>
    /\ pc' = "returned"
    /\ UNCHANGED <<run_vars, raised>>

(***************************************************************************)
(* Actions of run_verification.                                            *)
(***************************************************************************)
LoopTarget(n, count) == IF n > count THEN "merge" ELSE "load"

\* lines 24-34: the files that exist are read
Assess ==
    /\ pc = "assess"
    /\ file_contents' = SelectSeq(files, LAMBDA f : f.exists)
    /\ pc' = LoopTarget(1, Len(SelectSeq(files, LAMBDA f : f.exists)))
    /\ UNCHANGED <<assess_vars, files, k, df, ret, cleaned_dfs, indexed_dfs, final_merged,
                   mi, merge_ran, final_cleaned_df, exported, raised>>

\* lines 44-48
Admit ==
    /\ pc = "returned"
    /\ cleaned_dfs' = IF Admitted(ret) THEN Append(cleaned_dfs, ret[1])
                      ELSE cleaned_dfs
    /\ k' = k + 1
    /\ pc' = LoopTarget(k + 1, Len(file_contents))
    /\ UNCHANGED <<assess_vars, files, file_contents, df, ret, indexed_dfs, final_merged,
                   mi, merge_ran, final_cleaned_df, exported, raised>>

\* lines 50-63
MergeStart ==
    /\ pc = "merge"
    /\ IF cleaned_dfs = <<>>
       THEN /\ final_cleaned_df' = None
            /\ pc' = "export"
            /\ UNCHANGED <<indexed_dfs, final_merged, mi, merge_ran>>
       ELSE IF Len(cleaned_dfs) = 1
       THEN /\ final_cleaned_df' = <<cleaned_dfs[1]>>
            /\ pc' = "export"
            /\ UNCHANGED <<indexed_dfs, final_merged, mi, merge_ran>>
       ELSE /\ indexed_dfs' = [n \in 1..Len(cleaned_dfs) |->
                                  set_index(cleaned_dfs[n])]
            /\ final_merged' = set_index(cleaned_dfs[1])
            /\ mi' = 2
            /\ merge_ran' = TRUE
            /\ pc' = "combine"
            /\ UNCHANGED final_cleaned_df
    /\ UNCHANGED <<assess_vars, files, file_contents, k, df, ret, cleaned_dfs, exported,
                   raised>>

\* lines 64-65
CombineNext ==
    /\ pc = "combine"
    /\ mi <= Len(indexed_dfs)
    /\ final_merged' = combine_first(final_merged, indexed_dfs[mi])
    /\ mi' = mi + 1
    /\ UNCHANGED <<assess_vars, files, file_contents, pc, k, df, ret, cleaned_dfs,
                   indexed_dfs, merge_ran, final_cleaned_df, exported, raised>>

\* line 67
ResetIndex ==
    /\ pc = "combine"
    /\ mi > Len(indexed_dfs)
    /\ final_cleaned_df' = <<reset_index(final_merged)>>
    /\ pc' = "export"
    /\ UNCHANGED <<assess_vars, files, file_contents, k, df, ret, cleaned_dfs, indexed_dfs,
                   final_merged, mi, merge_ran, exported, raised>>

\* lines 74-84
Export ==
    /\ pc = "export"
    /\ exported' = final_cleaned_df
    /\ pc' = "done"
    /\ UNCHANGED <<assess_vars, files, file_contents, k, df, ret, cleaned_dfs, indexed_dfs,
                   final_merged, mi, merge_ran, final_cleaned_df, raised>>

(***************************************************************************)
(* Inputs.  A source is a file of csv_files: whether it exists, whether    *)
(* read_csv can parse it, its header and its lines of fields.              *)
(***************************************************************************)
Source(header, lines) ==
    [exists |-> TRUE, parses |-> TRUE, header |-> header, lines |-> lines]

MissingFile ==
    [exists |-> FALSE, parses |-> FALSE, header |-> <<>>, lines |-> <<>>]

UnreadableFile ==
    [exists |-> TRUE, parses |-> FALSE, header |-> <<>>, lines |-> <<>>]

BOISE == <<"B", "o", "i", "s", "e">>
PROVO == <<"P", "r", "o", "v", "o">>
IDAHO == <<"I", "D">>
UTAH == <<"U", "T">>
TBD == <<"t", "b", "d">>
DAY1 == <<"2", "0", "2", "4", "-", "0", "1", "-", "0", "5">>
DAY2 == <<"2", "0", "2", "4", "-", "0", "2", "-", "0", "6">>
TOTAL == <<"T", "O", "T", "A", "L">>
COUNT5 == <<"c", "o", "u", "n", "t", ":", " ", "5">>
HUNDRED == <<"1", "0", "0">>
SPRINGFIELD == <<"S", "p", "r", "i", "n", "g", "f", "i", "e", "l", "d">>
URL7 == <<"j", "/", "7">>
URL07 == <<"a", "0", "7", "b", "8">>
URL8 == <<"j", "/", "8">>
URL9 == <<"j", "/", "9">>
TWELVE == <<"1", "2">>
URL4821 == <<"h", "t", "t", "p", "s", ":", "/", "/", "x", "/", "j", "o", "b", "s", "/", "4", "8", "2", "1">>
NODIGITS == <<"n", "o", "-", "d", "i", "g", "i", "t", "s", "-", "h", "e", "r", "e">>

H_JOB_URL == <<"J", "o", "b", " ", "U", "R", "L">>
H_CITY == <<"C", "i", "t", "y">>
H_STATE == <<"S", "t", "a", "t", "e">>
H_CLOSE_DATE == <<"C", "l", "o", "s", "e", " ", "D", "a", "t", "e">>
H_AMOUNT == <<"A", "m", "o", "u", "n", "t">>
H_LABEL == <<"L", "a", "b", "e", "l">>

\* the fields the generated sources draw from, by column: a missing field,
\* links whose first digit run is 7 (once spelled 07), a number, and the
\* marker words TOTAL and count
CellPool1 == {<<>>, URL7, URL07, TOTAL}

CellPool2 == {<<>>, URL7, TWELVE, COUNT5}

SmallHeaders ==
    {<<H_JOB_URL, H_CITY>>,
     <<<<"c", "o", "l", "1">>, <<"c", "o", "l", "2">>>>,
     <<<<"H", "y", "p", "e", "r", "l", "i", "n", "k">>, <<"U", "R", "L">>>>,
     <<<<"U", "n", "n", "a", "m", "e", "d", ":", " ", "0">>, H_JOB_URL>>,
     <<H_JOB_URL, <<"j", "o", "b", "_", "u", "r", "l">>>>,
     <<<<"J", "o", "b", " ", "I", "D">>, <<"J", "o", "b", " ", "L", "i", "n", "k">>>>,
     <<H_CITY, <<"c", "i", "t", "y">>>>}

SmallSources ==
    {Source(h, l) :
        h \in SmallHeaders,
        l \in UNION {[1..n -> CellPool1 \X CellPool2] : n \in 1..MaxRows}}

\* tall sources: n rows with distinct links and one data column in which
\* `missing` fields are missing (first or last) and the others hold `first`
\* times the value a and then the value b
TallColumn(n, missing, first, front, a, b) ==
    LET obs == [i \in 1..(n - missing) |-> IF i <= first THEN a ELSE b]
        gap == [i \in 1..missing |-> <<>>]
    IN  IF front THEN gap \o obs ELSE obs \o gap

\* <<rows, missing, first>>
TallShapes ==
    {sh \in (1..MaxTallRows) \X (0..MaxTallRows) \X (0..MaxTallRows) :
        sh[2] <= sh[1] /\ sh[3] <= sh[1] - sh[2]}

TallSources ==
    {Source(<<H_JOB_URL, v[1]>>,
            [r \in 1..sh[1] |->
                <<<<"j", "/">> \o Numeral(r),
                  TallColumn(sh[1], sh[2], sh[3], front, v[2], v[3])[r]>>]) :
        v \in {<<H_AMOUNT, <<"1">>, <<"2">>>>, <<H_LABEL, <<"a">>, <<"b">>>>},
        sh \in TallShapes,
        front \in BOOLEAN}

\* the sources of the tests and of the specification's scenarios
TestCsv ==
    Source(<<<<"c", "o", "l", "1">>, <<"c", "o", "l", "2">>>>, << <<<<"1">>, <<"2">>>>, <<<<"3">>, <<"4">>>> >>)

ScenarioSources ==
    {TestCsv,
     UnreadableFile,
     Source(<<<<"j", "o", "b", "_", "u", "r", "l">>>>, << <<URL4821>>, <<NODIGITS>> >>),
     Source(<<<<"N", "a", "m", "e">>, <<"A", "m", "o", "u", "n", "t">>, <<"N", "o", "t", "e">>>>,
            << <<TOTAL, HUNDRED, COUNT5>>, <<TOTAL, HUNDRED, SPRINGFIELD>> >>),
     Source(<<H_JOB_URL, H_CLOSE_DATE>>, << <<URL7, DAY1>>, <<URL8, TBD>> >>),
     Source(<<<<"J", "o", "b", " ", "I", "D">>, <<"j", "o", "b", "_", "i", "d">>>>, << <<TWELVE, TWELVE>> >>)}

\* sources with a summary row: up to MaxMarkedRows data rows with distinct
\* links and an Amount that is missing, 1 or 3, and the row TOTAL, count: 5
\* at any position among them
AmountPool == {<<>>, <<"1">>, <<"3">>}

InsertAt(s, p, e) == SubSeq(s, 1, p - 1) \o <<e>> \o SubSeq(s, p, Len(s))

MarkedSources ==
    UNION {{Source(<<H_JOB_URL, H_AMOUNT>>,
                   InsertAt([r \in 1..n |-> <<<<"j", "/">> \o Numeral(r), a[r]>>],
                            p, <<TOTAL, COUNT5>>)) :
               a \in [1..n -> AmountPool], p \in 1..(n + 1)} :
           n \in 1..MaxMarkedRows}

CleanSources ==
    SmallSources
      \cup TallSources
      \cup MarkedSources
      \cup ScenarioSources

\* the files a run of run_verification may find
RunSources ==
    {MissingFile,
     UnreadableFile,
     TestCsv,
     Source(<<H_JOB_URL, H_CITY, H_CLOSE_DATE>>,
            << <<URL7, BOISE, DAY1>>, <<URL8, BOISE, TBD>> >>),
     Source(<<<<"J", "o", "b", " ", "L", "i", "n", "k">>, H_CITY, H_STATE>>,
            << <<URL7, PROVO, UTAH>>, <<URL9, PROVO, IDAHO>> >>),
     Source(<<H_JOB_URL, H_CITY, H_STATE>>,
            << <<URL7, BOISE, <<>>>>, <<URL8, BOISE, IDAHO>> >>),
     Source(<<H_JOB_URL, H_CITY>>, << <<<<>>, BOISE>> >>),
     Source(<<H_JOB_URL, H_CITY>>, << <<NODIGITS, BOISE>> >>)}

(***************************************************************************)
(* Specifications.                                                         *)
(***************************************************************************)
\* assess_raw_data not called
AssessIdle ==
    /\ file_content = <<>>
    /\ decoded_content = <<>>
    /\ assessment = <<>>
    /\ enc = 0

Idle ==
    /\ k = 1
    /\ df = NoTable
    /\ ret = None
    /\ indexed_dfs = <<>>
    /\ final_merged = NoIndexed
    /\ mi = 0
    /\ merge_ran = FALSE
    /\ final_cleaned_df = None
    /\ exported = None
    /\ raised = ""

\* run_verification from its first line
Init ==
    /\ files \in [1..NumFiles -> RunSources]
    /\ file_contents = <<>>
    /\ pc = "assess"
    /\ cleaned_dfs = <<>>
    /\ Idle
    /\ AssessIdle

Clean ==
    \/ Load
    \/ RemoveSummary
    \/ Standardize
    \/ ExtractId
    \/ ResolveMissing
    \/ Optimize
    \/ Deduplicate

Next ==
    \/ Assess
    \/ Clean
    \/ Admit
    \/ MergeStart
    \/ CombineNext
    \/ ResetIndex
    \/ Export

Spec == Init /\ [][Next]_vars

\* one call of clean_csv_data on one source
InitClean ==
    /\ \E src \in CleanSources :
          /\ files = <<src>>
          /\ file_contents = <<src>>
    /\ pc = "load"
    /\ cleaned_dfs = <<>>
    /\ Idle
    /\ AssessIdle

SpecClean == InitClean /\ [][Clean]_vars

(***************************************************************************)
(* The merge on its own: cleaned tables as clean_csv_data returns them     *)
(* (job_id last, present and unique; a cell is missing only in a datetime  *)
(* column, where step 6 coerces what it cannot parse to NaT).              *)
(***************************************************************************)
CITY == <<"c", "i", "t", "y">>
CLOSE_DATE == <<"c", "l", "o", "s", "e", "_", "d", "a", "t", "e">>
ID5 == <<"5">>
ID7 == <<"7">>

MergeIdLists == {<<ID5>>, <<ID7>>, <<ID5, ID7>>, <<ID7, ID5>>}

CityValues == {BOISE, PROVO}

DateValues == {NaN, DAY1, DAY2}

MergeTables ==
    {[cols   |-> <<CLOSE_DATE, JOB_ID>>,
      dtypes |-> <<"datetime64", "number">>,
      rows   |-> [r \in 1..Len(ids) |-> <<d[r], ids[r]>>]] :
        ids \in MergeIdLists, d \in [1..2 -> DateValues]}
    \cup
    {[cols   |-> <<CITY, JOB_ID>>,
      dtypes |-> <<"object", "number">>,
      rows   |-> << <<c, id>> >>] :
        c \in CityValues, id \in {ID5, ID7}}
    \cup
    {[cols   |-> <<CITY, CLOSE_DATE, JOB_ID>>,
      dtypes |-> <<"object", "datetime64", "number">>,
      rows   |-> << <<c, d, id>> >>] :
        c \in CityValues, d \in DateValues, id \in {ID5, ID7}}

\* run_verification at line 50, with one or more tables admitted
InitMerge ==
    /\ cleaned_dfs \in UNION {[1..n -> MergeTables] : n \in 1..NumFiles}
    /\ files = <<>>
    /\ file_contents = <<>>
    /\ pc = "merge"
    /\ Idle
    /\ AssessIdle

Merge ==
    \/ MergeStart
    \/ CombineNext
    \/ ResetIndex
    \/ Export

SpecMerge == InitMerge /\ [][Merge]_vars

(***************************************************************************)
(* assess_raw_data.  The content of a file is a sequence of bytes (0..255) *)
(* and the text decoded from it a sequence of code points.                 *)
(***************************************************************************)
\* the most bytes of a file assessed
MaxBytes == 3

\* line feed, comma, A, and bytes above 127: 0x81 (undefined in cp1252),
\* 0xC3 0xA9 (e acute in utf-8), 0xE9 (e acute in latin-1, a truncated
\* sequence in utf-8)
BytePool == {10, 44, 65, 129, 169, 195, 233}

Contents == UNION {[1..n -> BytePool] : n \in 0..MaxBytes}

DecodeError == [ok |-> FALSE, text |-> <<>>]

\* a continuation byte of utf-8
IsCont(b) == b >= 128 /\ b <= 191

\* the length of the utf-8 sequence a byte starts, 0 when it starts none
Utf8Len(b) ==
    IF b < 128 THEN 1
    ELSE IF b >= 194 /\ b <= 223 THEN 2
    ELSE IF b >= 224 /\ b <= 239 THEN 3
    ELSE IF b >= 240 /\ b <= 244 THEN 4
    ELSE 0

\* the second byte of a sequence is in the range its first byte allows (no
\* overlong form, no surrogate, nothing above U+10FFFF)
Utf8SecondOk(b, c) ==
    /\ (b = 224 => c >= 160)
    /\ (b = 237 => c <= 159)
    /\ (b = 240 => c >= 144)
    /\ (b = 244 => c <= 143)

Utf8CodePoint(bs, n) ==
    IF n = 1 THEN bs[1]
    ELSE IF n = 2 THEN (bs[1] - 192) * 64 + (bs[2] - 128)
    ELSE IF n = 3
    THEN (bs[1] - 224) * 4096 + (bs[2] - 128) * 64 + (bs[3] - 128)
    ELSE (bs[1] - 240) * 262144 + (bs[2] - 128) * 4096
             + (bs[3] - 128) * 64 + (bs[4] - 128)

\* file_content.decode('utf-8')
RECURSIVE Utf8Decode(_)
Utf8Decode(bs) ==
    IF bs = <<>> THEN [ok |-> TRUE, text |-> <<>>]
    ELSE LET n == Utf8Len(bs[1])
         IN  IF \/ n = 0
                \/ Len(bs) < n
                \/ \E i \in 2..n : ~IsCont(bs[i])
                \/ (n >= 3 /\ ~Utf8SecondOk(bs[1], bs[2]))
             THEN DecodeError
             ELSE LET rest == Utf8Decode(SubSeq(bs, n + 1, Len(bs)))
                  IN  IF rest.ok
                      THEN [ok   |-> TRUE,
                            text |-> <<Utf8CodePoint(bs, n)>> \o rest.text]
                      ELSE DecodeError

\* file_content.decode('latin-1'), and 'iso-8859-1', which is the same codec:
\* every byte is the code point of its value
Latin1Decode(bs) == [ok |-> TRUE, text |-> bs]

\* the bytes cp1252 leaves undefined
Cp1252Undefined == {129, 141, 143, 144, 157}

\* the code points of the bytes 0x80..0x9F that cp1252 defines
Cp1252High ==
    [b \in (128..159) \ Cp1252Undefined |->
        CASE b = 128 -> 8364 [] b = 130 -> 8218 [] b = 131 -> 402
          [] b = 132 -> 8222 [] b = 133 -> 8230 [] b = 134 -> 8224
          [] b = 135 -> 8225 [] b = 136 -> 710  [] b = 137 -> 8240
          [] b = 138 -> 352  [] b = 139 -> 8249 [] b = 140 -> 338
          [] b = 142 -> 381  [] b = 145 -> 8216 [] b = 146 -> 8217
          [] b = 147 -> 8220 [] b = 148 -> 8221 [] b = 149 -> 8226
          [] b = 150 -> 8211 [] b = 151 -> 8212 [] b = 152 -> 732
          [] b = 153 -> 8482 [] b = 154 -> 353  [] b = 155 -> 8250
          [] b = 156 -> 339  [] b = 158 -> 382  [] b = 159 -> 376]

\* file_content.decode('cp1252')
Cp1252Decode(bs) ==
    IF \E i \in 1..Len(bs) : bs[i] \in Cp1252Undefined THEN DecodeError
    ELSE [ok   |-> TRUE,
          text |-> [i \in 1..Len(bs) |->
                       IF bs[i] \in DOMAIN Cp1252High THEN Cp1252High[bs[i]]
                       ELSE bs[i]]]

decode(bs, encoding) ==
    IF encoding = "utf-8" THEN Utf8Decode(bs)
    ELSE IF encoding = "cp1252" THEN Cp1252Decode(bs)
    ELSE Latin1Decode(bs)

\* the list of the for loop at line 40
fallback_encodings == <<"latin-1", "cp1252", "iso-8859-1">>

DECODE_FAILED == "Failed to decode file."

\* line 35; the file name is that of the test.  initial_columns is <<>> while
\* the dictionary has no such key and <<columns>> once line 59 has set it
NewAssessment ==
    [file_name        |-> "test.csv",
     issues_found     |-> <<>>,
     working_encoding |-> "utf-8",
     likely_delimiter |-> ",",
     initial_columns  |-> <<>>]

\* the code points str.splitlines takes for line boundaries
LineBreaks == {10, 11, 12, 13, 28, 29, 30, 133, 8232, 8233}

\* the pieces of text between the code points of breaks (CR LF is one break),
\* without a last empty piece; cur is the piece being read
RECURSIVE SplitFrom(_, _, _)
SplitFrom(text, cur, breaks) ==
    IF text = <<>> THEN (IF cur = <<>> THEN <<>> ELSE <<cur>>)
    ELSE IF text[1] \in breaks
    THEN LET skip == IF text[1] = 13 /\ Len(text) > 1 /\ text[2] = 10
                     THEN 2 ELSE 1
         IN  <<cur>> \o SplitFrom(SubSeq(text, skip + 1, Len(text)), <<>>,
                                  breaks)
    ELSE SplitFrom(Tail(text), Append(cur, text[1]), breaks)

\* decoded_content.splitlines()
splitlines(text) == SplitFrom(text, <<>>, LineBreaks)

COMMA == 44

\* line.count(',')
count(line, c) == Cardinality({i \in 1..Len(line) : line[i] = c})

SniffLines == 20

\* [line.count(',') for line in lines[:20]]
comma_counts(lines) ==
    [i \in 1..(IF Len(lines) < SniffLines THEN Len(lines) ELSE SniffLines) |->
        count(lines[i], COMMA)]

\* the lines read_csv tokenizes: ended by LF, CR or CR LF, blank ones skipped
CsvLines(text) ==
    SelectSeq(SplitFrom(text, <<>>, {10, 13}), LAMBDA l : l /= <<>>)

\* the fields of a line, split at the delimiter
RECURSIVE SplitFields(_, _)
SplitFields(line, cur) ==
    IF line = <<>> THEN <<cur>>
    ELSE IF line[1] = COMMA THEN <<cur>> \o SplitFields(Tail(line), <<>>)
    ELSE SplitFields(Tail(line), Append(cur, line[1]))

Fields(line) == SplitFields(line, <<>>)

\* the decimal digits of n as code points
RECURSIVE CodeDigits(_)
CodeDigits(n) ==
    IF n < 10 THEN <<48 + n>> ELSE CodeDigits(n \div 10) \o <<48 + (n % 10)>>

\* "Unnamed: "
UNNAMED_PREFIX == <<85, 110, 110, 97, 109, 101, 100, 58, 32>>

\* the column names read_csv gives a header: an empty name is Unnamed: i, a
\* repeated name gets the suffix .1, .2, ...
ColumnNames(header) ==
    [i \in 1..Len(header) |->
        IF header[i] = <<>> THEN UNNAMED_PREFIX \o CodeDigits(i - 1)
        ELSE LET before == Cardinality({h \in 1..(i - 1) :
                                           header[h] = header[i]})
             IN  IF before = 0 THEN header[i]
                 ELSE header[i] \o <<46>> \o CodeDigits(before)]

TrialRows == 100

\* pd.read_csv(io.StringIO(decoded_content), delimiter=',', nrows=100): the
\* columns of the sample, or the error raised.  No line at all is an
\* EmptyDataError; a line after the first data line with more fields than the
\* header and the first data line have is a ParserError.
trial_parse(text) ==
    LET lines == CsvLines(text)
    IN  IF lines = <<>>
        THEN [err |-> "No columns to parse from file", columns |-> <<>>]
        ELSE LET header == Fields(lines[1])
                 last   == IF Len(lines) - 1 < TrialRows THEN Len(lines)
                           ELSE TrialRows + 1
                 data   == SubSeq(lines, 2, last)
                 width  == IF data /= <<>> /\ Len(Fields(data[1])) > Len(header)
                           THEN Len(Fields(data[1])) ELSE Len(header)
             IN  IF \E r \in 2..Len(data) : Len(Fields(data[r])) > width
                 THEN [err |-> "Error tokenizing data", columns |-> <<>>]
                 ELSE [err |-> "", columns |-> ColumnNames(header)]

(***************************************************************************)
(* Actions of assess_raw_data.                                             *)
(***************************************************************************)
clean_run_vars == <<files, file_contents, k, df, ret, cleaned_dfs,
                    indexed_dfs, final_merged, mi, merge_ran,
                    final_cleaned_df, exported, raised>>

\* lines 37-39
DecodeUtf8 ==
    /\ pc = "decode"
    /\ IF decode(file_content, "utf-8").ok
       THEN /\ decoded_content' = decode(file_content, "utf-8").text
            /\ pc' = "check"
            /\ enc' = enc
       ELSE /\ decoded_content' = decoded_content
            /\ pc' = "fallback"
            /\ enc' = 1
    /\ UNCHANGED <<clean_run_vars, file_content, assessment>>

\* lines 40-46: one turn of the loop over the fallback encodings
TryFallback ==
    /\ pc = "fallback"
    /\ IF enc > Len(fallback_encodings)
       THEN /\ pc' = "check"
            /\ UNCHANGED <<decoded_content, assessment, enc>>
       ELSE IF decode(file_content, fallback_encodings[enc]).ok
       THEN /\ decoded_content' =
                   decode(file_content, fallback_encodings[enc]).text
            /\ assessment' = [assessment EXCEPT
                   !.working_encoding = fallback_encodings[enc]]
            /\ pc' = "check"
            /\ enc' = enc
       ELSE /\ enc' = enc + 1
            /\ UNCHANGED <<decoded_content, assessment, pc>>
    /\ UNCHANGED <<clean_run_vars, file_content>>

\* lines 47-49: if not decoded_content
CheckDecoded ==
    /\ pc = "check"
    /\ IF decoded_content = <<>>
       THEN /\ assessment' = [assessment EXCEPT
                   !.issues_found = Append(@, DECODE_FAILED)]
            /\ pc' = "assessed"
       ELSE /\ assessment' = assessment
            /\ pc' = "sniff"
    /\ UNCHANGED <<clean_run_vars, file_content, decoded_content, enc>>

\* lines 51-54
SniffDelimiter ==
    /\ pc = "sniff"
    /\ assessment' =
          IF \E i \in 1..Len(comma_counts(splitlines(decoded_content))) :
                comma_counts(splitlines(decoded_content))[i] > 0
          THEN [assessment EXCEPT !.likely_delimiter = ","]
          ELSE assessment
    /\ pc' = "trial"
    /\ UNCHANGED <<clean_run_vars, file_content, decoded_content, enc>>

\* lines 56-62
TrialParse ==
    /\ pc = "trial"
    /\ assessment' =
          IF trial_parse(decoded_content).err = ""
          THEN [assessment EXCEPT
                   !.initial_columns = <<trial_parse(decoded_content).columns>>]
          ELSE [assessment EXCEPT
                   !.issues_found = Append(@, "Pandas read error")]
    /\ pc' = "assessed"
    /\ UNCHANGED <<clean_run_vars, file_content, decoded_content, enc>>

assess_raw_data ==
    \/ DecodeUtf8
    \/ TryFallback
    \/ CheckDecoded
    \/ SniffDelimiter
    \/ TrialParse

\* assess_raw_data at line 37, on any content of up to MaxBytes bytes
InitAssess ==
    /\ file_content \in Contents
    /\ decoded_content = <<>>
    /\ assessment = NewAssessment
    /\ enc = 0
    /\ pc = "decode"
    /\ files = <<>>
    /\ file_contents = <<>>
    /\ cleaned_dfs = <<>>
    /\ Idle

SpecAssess == InitAssess /\ [][assess_raw_data]_vars

(***************************************************************************)
(* Properties.                                                             *)
(***************************************************************************)
\* the job_id cells of a table, by row
JobIds(t) ==
    [r \in 1..Len(t.rows) |-> t.rows[r][CHOOSE j \in ColIdx(t, JOB_ID) : TRUE]]

HasUrlColumn(src) ==
    \E j \in 1..Len(src.header) : IsUrlName(clean_column_name(src.header[j]))

\* the lines of the source that are data rows
DataRowCount(src) ==
    Cardinality({r \in 1..Len(src.lines) :
                    ~is_likely_header_row(read_csv(src).rows[r])})

\* C4: for a source with no link column, clean_csv_data returns a table that
\* keeps every data row and every original column and adds a job_id column
\* that is missing in every row; the test's input col1,col2 / 1,2 / 3,4
\* gives the columns [col1, col2, job_id] and 2 rows.
C4_NoLinkKeepsRowsAndColumns ==
    (pc = "returned" /\ files[1].parses /\ ~HasUrlColumn(files[1])) =>
        /\ ret /= None
        /\ ret[1].cols =
              [j \in 1..Len(files[1].header) |->
                  clean_column_name(files[1].header[j])] \o <<JOB_ID>>
        /\ Len(ret[1].rows) = DataRowCount(files[1])
        /\ \A r \in 1..Len(ret[1].rows) : JobIds(ret[1])[r] = NaN
        /\ (files[1] = TestCsv =>
               /\ ret[1].cols = <<<<"c", "o", "l", "1">>, <<"c", "o", "l", "2">>, JOB_ID>>
               /\ Len(ret[1].rows) = 2)

\* C5: a successful cleaning run returns, with the cleaned table, an audit
\* report (rows with original_column, missing_percent_before, cleaned_column,
\* action, details) that has an entry for job_id with action Kept.
C5_ReportHasJobIdEntry ==
    (pc = "returned" /\ ret /= None) =>
        /\ Len(ret) = 2
        /\ \E i \in 1..Len(ret[2]) :
              /\ DOMAIN ret[2][i] =
                    {"original_column", "missing_percent_before",
                     "cleaned_column", "action", "details"}
              /\ ret[2][i].cleaned_column = JOB_ID
              /\ ret[2][i].action = "Kept"

\* the position of the first column whose name denotes a link
FirstUrlPosition(t) ==
    CHOOSE j \in 1..Len(t.cols) :
        IsUrlName(t.cols[j]) /\ \A h \in 1..(j - 1) : ~IsUrlName(t.cols[h])

\* run is the leftmost maximal run of decimal digits of s
IsLeftmostDigitRun(s, run) ==
    \E i \in 1..Len(s) : \E e \in i..Len(s) :
        /\ run = SubSeq(s, i, e)
        /\ \A h \in i..e : IsDigit(s[h])
        /\ \A h \in 1..(i - 1) : ~IsDigit(s[h])
        /\ (e = Len(s) \/ ~IsDigit(s[e + 1]))

\* id is the job_id the claim gives a cell
IsJobIdOf(cell, id) ==
    IF \E h \in 1..Len(cell) : IsDigit(cell[h])
    THEN /\ id /= NaN
         /\ \E i \in 1..Len(cell) : \E e \in i..Len(cell) :
               /\ IsLeftmostDigitRun(cell, SubSeq(cell, i, e))
               /\ ParseNat(id) = ParseNat(SubSeq(cell, i, e))
    ELSE id = NaN

\* C8: the job_id step raises no error and gives every row the integer value
\* of the leftmost maximal digit run of the string form of its cell in the
\* first link column, and a missing job_id when that cell has no digit or is
\* missing.
C8_JobIdIsLeftmostDigitRun ==
    [][(pc = "job_id" /\ find_url_column(df) /= None) =>
          /\ pc' = "missing"
          /\ raised' = ""
          /\ Len(df'.rows) = Len(df.rows)
          /\ \A r \in 1..Len(df.rows) :
                IsJobIdOf(df.rows[r][FirstUrlPosition(df)], JobIds(df')[r])]_vars

\* the number of missing cells
MissingIn(cells) == Cardinality({i \in 1..Len(cells) : cells[i] = NaN})

\* the n-th smallest of the observed numbers of a column
NthSmallest(cells, n) ==
    LET I == {i \in 1..Len(cells) : cells[i] /= NaN}
    IN  CHOOSE v \in {ParseNat(cells[i]) : i \in I} :
           /\ Cardinality({i \in I : ParseNat(cells[i]) < v}) < n
           /\ n <= Cardinality({i \in I : ParseNat(cells[i]) <= v})

\* twice the value of a numeral that may end in .5
Twice(s) ==
    IF Len(s) > 2 /\ SubSeq(s, Len(s) - 1, Len(s)) = <<".", "5">>
    THEN 2 * ParseNat(SubSeq(s, 1, Len(s) - 2)) + 1
    ELSE 2 * ParseNat(s)

IsMedianOf(cells, v) ==
    LET m == Len(cells) - MissingIn(cells)
    IN  /\ m > 0
        /\ Twice(v) = NthSmallest(cells, (m + 1) \div 2)
                        + NthSmallest(cells, (m \div 2) + 1)

IsMostFrequentOf(cells, v) ==
    IF \A i \in 1..Len(cells) : cells[i] = NaN THEN v = UNKNOWN
    ELSE /\ v /= NaN
         /\ \E i \in 1..Len(cells) : cells[i] = v
         /\ \A i \in 1..Len(cells) :
               cells[i] /= NaN =>
                  Cardinality({h \in 1..Len(cells) : cells[h] = cells[i]})
                     <= Cardinality({h \in 1..Len(cells) : cells[h] = v})

\* the table that enters the missing-value step: the source after steps 1-4
EnteringMissing(src) ==
    ExtractJobId(StandardizeColumns(RemoveSummaryRows(read_csv(src)))).df

\* what the claim says of one column of the table before the step
ColumnResolved(before, after, j) ==
    LET name  == before.cols[j]
        cells == Column(before, j)
        n     == Len(cells)
        m     == MissingIn(cells)
    IN  IF name = JOB_ID
        THEN \E h \in ColIdx(after, name) : Column(after, h) = cells
        ELSE IF 100 * m > 90 * n
        THEN ColIdx(after, name) = {}
        ELSE /\ Cardinality(ColIdx(after, name)) = 1
             /\ \A h \in ColIdx(after, name) : \A r \in 1..n :
                   IF cells[r] /= NaN THEN after.rows[r][h] = cells[r]
                   ELSE IF before.dtypes[j] = "number"
                   THEN IsMedianOf(cells, after.rows[r][h])
                   ELSE IsMostFrequentOf(cells, after.rows[r][h])

\* C9: when the missing-value step has run (pc = "types"), it has removed every column other than job_id with
\* more than 90% missing rows; kept the others (exactly 90% included),
\* replacing each missing cell by the median (number column) or the most
\* frequent value (other columns) and leaving observed cells as they are;
\* and neither dropped nor filled job_id.
C9_MissingValuePolicy ==
    pc = "types" =>
        /\ Len(df.rows) = Len(EnteringMissing(file_contents[k]).rows)
        /\ \A j \in 1..Len(EnteringMissing(file_contents[k]).cols) :
              ColumnResolved(EnteringMissing(file_contents[k]), df, j)

\* C9 witness: a source of ten rows whose data column is missing in exactly
\* nine has passed the step with the column kept and filled.
C9_Witness ==
    /\ pc = "types"
    /\ Len(files[1].lines) = 10
    /\ Len(files[1].header) = 2
    /\ Cardinality({r \in 1..10 : files[1].lines[r][2] = <<>>}) = 9
    /\ Len(df.cols) = 2
    /\ \A r \in 1..Len(df.rows) : df.rows[r][1] /= NaN

\* a row the claim calls a non-data row: two different marker keywords occur,
\* whatever the case, in its cells that are not missing
IsMarkerRow(row) ==
    Cardinality({a \in 1..Len(header_keywords) :
                    \E i \in 1..Len(row) :
                        /\ row[i] /= NaN
                        /\ Contains(Lower(row[i]), header_keywords[a])}) >= 2

\* C10: the row filter removes exactly the rows in which at least two marker
\* keywords match and keeps the others in their order: after it (pc = "names")
\* the table holds the rows read that are no marker rows, in order.
C10_RowFilter ==
    pc = "names" =>
        /\ df.cols = read_csv(file_contents[k]).cols
        /\ df.rows = SelectSeq(read_csv(file_contents[k]).rows,
                               LAMBDA row : ~IsMarkerRow(row))

\* C10 witness: of the rows [TOTAL, 100, count: 5] and
\* [TOTAL, 100, Springfield] the filter has kept the second alone.
C10_Witness ==
    /\ pc = "names"
    /\ files[1].lines =
          << <<TOTAL, HUNDRED, COUNT5>>, <<TOTAL, HUNDRED, SPRINGFIELD>> >>
    /\ df.rows = << <<TOTAL, HUNDRED, SPRINGFIELD>> >>

\* C6: a failure while cleaning one source, at whichever step, never aborts
\* run_verification: no exception leaves the run, every file found is taken
\* through the cleaning loop, and the run reaches its end.
C6_CleaningFailureNeverAbortsRun ==
    /\ raised = ""
    /\ pc /= "raised"
    /\ (pc \in {"merge", "combine", "export", "done"} =>
           k = Len(file_contents) + 1)

\* no file of the run yields a cleaned table with a job_id that is not missing
NoUsableSource ==
    \A i \in 1..Len(files) :
        files[i].exists => ~Admitted(clean_csv_data(files[i]).ret)

\* C7: when no source yields a cleaned table with a job_id, run_verification
\* never enters the merge, produces and exports no table, and raises no error.
C7_NoUsableSourceEndsQuietly ==
    NoUsableSource =>
        /\ ~merge_ran
        /\ pc /= "combine"
        /\ final_cleaned_df = None
        /\ exported = None
        /\ raised = ""
        /\ pc /= "raised"

\* the merged table
Merged == final_cleaned_df[1]

\* the rows of a table with the job_id id
RowsOf(t, id) == {r \in 1..Len(t.rows) : JobIds(t)[r] = id}

\* the job_ids and the data columns of the tables merged
SourceIds == UNION {Range(JobIds(cleaned_dfs[n])) : n \in 1..Len(cleaned_dfs)}

SourceColumns ==
    UNION {Range(cleaned_dfs[n].cols) : n \in 1..Len(cleaned_dfs)} \ {JOB_ID}

\* table t has a row for id with an observed value under name
HasValue(t, id, name) ==
    \E r \in RowsOf(t, id) : \E j \in ColIdx(t, name) : t.rows[r][j] /= NaN

ValueOf(t, id, name) ==
    t.rows[CHOOSE r \in RowsOf(t, id) : TRUE][CHOOSE j \in ColIdx(t, name) : TRUE]

\* the value of the first table in list order that has one, else missing
FirstObserved(id, name) ==
    LET having == {n \in 1..Len(cleaned_dfs) : HasValue(cleaned_dfs[n], id, name)}
    IN  IF having = {} THEN NaN
        ELSE ValueOf(cleaned_dfs[CHOOSE n \in having : \A h \in having : n <= h],
                     id, name)

\* C2: after the merge of two or more tables, every merged cell (job_id,
\* column) holds the value of the first table in list order that has a row
\* for the job_id with an observed value in the column, and is missing only
\* if no table has one.
C2_FirstTableWins ==
    (pc = "export" /\ merge_ran) =>
        \A id \in SourceIds : \A name \in SourceColumns :
            /\ Cardinality(RowsOf(Merged, id)) = 1
            /\ Cardinality(ColIdx(Merged, name)) = 1
            /\ ValueOf(Merged, id, name) = FirstObserved(id, name)

\* C2 witness: three tables merged; for job_id 5 the first two hold different
\* dates and the first one's is kept, for job_id 7 the first holds none and
\* the second one's is taken.
C2_Witness ==
    /\ pc = "export"
    /\ merge_ran
    /\ Len(cleaned_dfs) = 3
    /\ cleaned_dfs[1].cols = <<CLOSE_DATE, JOB_ID>>
    /\ cleaned_dfs[1].rows = << <<DAY1, ID5>>, <<NaN, ID7>> >>
    /\ cleaned_dfs[2].cols = <<CLOSE_DATE, JOB_ID>>
    /\ cleaned_dfs[2].rows = << <<DAY2, ID5>>, <<DAY2, ID7>> >>
    /\ ValueOf(Merged, ID5, CLOSE_DATE) = DAY1
    /\ ValueOf(Merged, ID7, CLOSE_DATE) = DAY2

\* C3: the columns of the merged table are the union of the columns of the
\* tables merged, and a row whose job_id occurs only in tables that lack a
\* column has that column missing.
C3_ColumnUnion ==
    (pc = "export" /\ merge_ran) =>
        /\ Range(Merged.cols) = SourceColumns \cup {JOB_ID}
        /\ \A name \in SourceColumns : \A id \in SourceIds :
              (\A n \in 1..Len(cleaned_dfs) :
                  RowsOf(cleaned_dfs[n], id) /= {}
                      => ColIdx(cleaned_dfs[n], name) = {})
              => /\ RowsOf(Merged, id) /= {}
                 /\ \A r \in RowsOf(Merged, id) :
                       \A j \in ColIdx(Merged, name) : Merged.rows[r][j] = NaN

\* C3 witness: the first table has the column city and a row for job_id 5,
\* the second lacks city and alone has job_id 7; the merged table has city,
\* missing in the row of job_id 7.
C3_Witness ==
    /\ pc = "export"
    /\ merge_ran
    /\ Len(cleaned_dfs) = 2
    /\ cleaned_dfs[1].cols = <<CITY, JOB_ID>>
    /\ cleaned_dfs[1].rows = << <<BOISE, ID5>> >>
    /\ cleaned_dfs[2].cols = <<CLOSE_DATE, JOB_ID>>
    /\ cleaned_dfs[2].rows = << <<DAY1, ID7>> >>
    /\ ColIdx(Merged, CITY) /= {}
    /\ ValueOf(Merged, ID7, CITY) = NaN
    /\ ValueOf(Merged, ID5, CITY) = BOISE

\* the source with the lines that the row filter classifies as non-data rows
\* deleted from the input
WithoutNonDataRows(src) ==
    [src EXCEPT !.lines =
        SelectIdx(src.lines,
                  {r \in 1..Len(src.lines) :
                      ~is_likely_header_row(read_csv(src).rows[r])}, 1)]

\* C11: rows classified as non-data rows do not influence the result: the
\* table clean_csv_data returns for a source equals the table it returns for
\* the same source with its non-data rows deleted from the input (compared
\* where cleaning the reduced source completes).
C11_NonDataRowsHaveNoInfluence ==
    (/\ pc = "returned"
     /\ files[1].parses
     /\ clean_csv_data(WithoutNonDataRows(files[1])).err = "")
        => ret = clean_csv_data(WithoutNonDataRows(files[1])).ret

\* two original column names of the source normalize to the same name
Collides(src, i, j) ==
    /\ i < j
    /\ clean_column_name(src.header[i]) = clean_column_name(src.header[j])

HasCollision(src) ==
    \E i \in 1..Len(src.header) : \E j \in 1..Len(src.header) :
        Collides(src, i, j)

\* the source in which, of the columns whose names collide, only the last is
\* left
KeepLater(src) ==
    LET keep == {i \in 1..Len(src.header) :
                    ~\E j \in 1..Len(src.header) : Collides(src, i, j)}
    IN  [src EXCEPT !.header = SelectIdx(src.header, keep, 1),
                    !.lines = [r \in 1..Len(src.lines) |->
                                  SelectIdx(src.lines[r], keep, 1)]]

\* C12: when two original column names normalize to the same canonical name,
\* cleaning raises no error and returns a table with one column of that name,
\* holding the values of the later column: the table it returns for the source
\* without the earlier of the colliding columns.
C12_LaterColumnOverwrites ==
    (files[1].parses /\ HasCollision(files[1])) =>
        /\ pc /= "raised"
        /\ raised = ""
        /\ (pc = "returned" =>
               /\ ret /= None
               /\ \A i \in 1..Len(files[1].header) :
                     Cardinality(ColIdx(ret[1],
                         clean_column_name(files[1].header[i]))) <= 1
               /\ ret = clean_csv_data(KeepLater(files[1])).ret)

\* the files of the run whose cleaned tables are admitted to the merge, in
\* list order
AdmittedSources ==
    SelectSeq(file_contents, LAMBDA f : Admitted(clean_csv_data(f).ret))

\* the table of a source as read, before any value is filled in: after the
\* row filter, the renaming and the job_id extraction
RawTable(src) ==
    ExtractJobId(StandardizeColumns(RemoveSummaryRows(read_csv(src)))).df

\* the raw cell of a source for a job_id and a column: that of the first row
\* with the job_id; missing when the source has no such row or column
RawCell(src, id, name) ==
    LET t == RawTable(src)
    IN  IF RowsOf(t, id) = {} \/ ColIdx(t, name) = {} THEN NaN
        ELSE t.rows[CHOOSE r \in RowsOf(t, id) :
                        \A q \in RowsOf(t, id) : r <= q]
                   [CHOOSE j \in ColIdx(t, name) : TRUE]

\* C13: end to end, for a job_id and a column present in two merged cleaned
\* tables, if the raw cell of the earlier source is missing (and no source
\* before the later one observed a value) and the raw cell of the later
\* source holds an observed value, the merged cell holds the later source's
\* value: a value filled in by the missing-value policy never takes
\* precedence over an observed one.
C13_ObservedBeatsInvented ==
    (pc = "export" /\ merge_ran) =>
        \A a \in 1..Len(cleaned_dfs) : \A b \in (a + 1)..Len(cleaned_dfs) :
            \A id \in Range(JobIds(cleaned_dfs[a]))
                          \cap Range(JobIds(cleaned_dfs[b])) :
                \A name \in (Range(cleaned_dfs[a].cols)
                                \cap Range(cleaned_dfs[b].cols)) \ {JOB_ID} :
                    (/\ \A c \in 1..(b - 1) :
                            RawCell(AdmittedSources[c], id, name) = NaN
                     /\ RawCell(AdmittedSources[b], id, name) /= NaN)
                    => ValueOf(Merged, id, name)
                          = ValueOf(cleaned_dfs[b], id, name)

\* C14: the final table of run_verification has job_id as one ordinary
\* column and exactly one row for each job_id that occurs in a cleaned table
\* admitted to the merge, and no other row: no job_id is lost, duplicated or
\* missing.
C14_OneRowPerJobId ==
    (pc = "export" /\ final_cleaned_df /= None) =>
        /\ Cardinality(ColIdx(Merged, JOB_ID)) = 1
        /\ \A id \in SourceIds : Cardinality(RowsOf(Merged, id)) = 1
        /\ \A r \in 1..Len(Merged.rows) :
              /\ JobIds(Merged)[r] /= NaN
              /\ JobIds(Merged)[r] \in SourceIds

\* C14 witness: three tables merged, the first with job_id 7 alone, the
\* second with 7 and 5; the final table has the two rows 5 and 7.
C14_Witness ==
    /\ pc = "export"
    /\ merge_ran
    /\ Len(cleaned_dfs) = 3
    /\ JobIds(cleaned_dfs[1]) = <<ID7>>
    /\ JobIds(cleaned_dfs[2]) = <<ID7, ID5>>
    /\ JobIds(Merged) = <<ID5, ID7>>

\* the encodings assess_raw_data tries, in order
Encodings == <<"utf-8">> \o fallback_encodings

\* the positions in that order of the encodings that decode the bytes
Decoding(bs) == {i \in 1..Len(Encodings) : decode(bs, Encodings[i]).ok}

\* C15: assess_raw_data records the issue 'Failed to decode file.', and
\* returns without a trial parse, if and only if none of utf-8, latin-1,
\* cp1252, iso-8859-1 decodes the bytes; whenever one does, working_encoding
\* is the first that did and no decode failure is recorded, whatever the
\* content, the empty one included.
C15_DecodeFailureIffNoEncoding ==
    pc = "assessed" =>
        /\ (\E i \in 1..Len(assessment.issues_found) :
               assessment.issues_found[i] = DECODE_FAILED)
           <=> Decoding(file_content) = {}
        /\ (Decoding(file_content) /= {} =>
               assessment.working_encoding =
                  Encodings[CHOOSE i \in Decoding(file_content) :
                               \A h \in Decoding(file_content) : i <= h])

====
